---- MODULE Spec2Model ----
(***************************************************************************)
(* The Slider component of frankzang/a11y (src/unnamed/part_000).          *)
(*                                                                         *)
(* JavaScript numbers are modelled as exact rationals <<n, d>> (d > 0, in  *)
(* lowest terms); Math.floor is the floor of the rational.                 *)
(***************************************************************************)
EXTENDS Integers, Sequences, FiniteSets, TLC

\* ------------------------------------------------------------------ bounds
\* range of the `min` option: (0 - MaxMin) .. MaxMin
MaxMin == 1
\* range of the `max` option: 1 .. MaxMax
MaxMax == 3
\* range of the `step` option: (0 - 1) .. MaxStep
MaxStep == 2
\* size of the slider node
TrackWidth == 4
TrackHeight == 5
\* how far outside the track (and below 0) a pointer coordinate may be
Overshoot == 2
\* arguments of a direct call of clampNumber: n / d with |n| <= MaxNum, d <= 2
MaxNum == 3

\* getBoundingClientRect() of the slider node
rect == [ left |-> 1, top |-> 1, width |-> TrackWidth, height |-> TrackHeight,
          right |-> 1 + TrackWidth, bottom |-> 1 + TrackHeight ]

\* --------------------------------------------------------------- rationals
Abs(i) == IF i < 0 THEN 0 - i ELSE i

RECURSIVE GCD(_, _)
GCD(a, b) == IF b = 0 THEN a ELSE GCD(b, a % b)

\* the rational n / d in lowest terms, d # 0
Rat(n, d) ==
  LET s == IF d < 0 THEN 0 - 1 ELSE 1
      g == GCD(Abs(n), Abs(d))
  IN  <<(s * n) \div g, (s * d) \div g>>

RInt(i) == <<i, 1>>
RAdd(a, b) == Rat(a[1] * b[2] + b[1] * a[2], a[2] * b[2])
RSub(a, b) == Rat(a[1] * b[2] - b[1] * a[2], a[2] * b[2])
RMul(a, b) == Rat(a[1] * b[1], a[2] * b[2])
RDiv(a, b) == Rat(a[1] * b[2], a[2] * b[1])
RNeg(a) == <<0 - a[1], a[2]>>
RLe(a, b) == a[1] * b[2] <= b[1] * a[2]
RLt(a, b) == a[1] * b[2] < b[1] * a[2]
RMax(a, b) == IF RLe(a, b) THEN b ELSE a
RMin(a, b) == IF RLe(a, b) THEN a ELSE b
\* Math.floor
Floor(a) == a[1] \div a[2]

\* ------------------------------------------------------------------- state
VARIABLES
  minV,         \* #min
  maxV,         \* #max
  step,         \* #step: the progress-step, a rational
  orientation,  \* #orientation
  hasOnChange,  \* whether #onChange is set
  hasName,      \* whether #name is set
  rangeValue,   \* #rangeValue: the progress, a rational
  dom,          \* what #createSlider/#moveSlider wrote to the nodes
  docListeners, \* event types with a listener of this widget on `document`
  lastEvent,    \* the event delivered last (the construction at first)
  calls,        \* arguments of the #onChange invocations made by the last event
  probe         \* a direct use of clampNumber: its arguments and its results

vars == <<minV, maxV, step, orientation, hasOnChange, hasName,
          rangeValue, dom, docListeners, lastEvent, calls, probe>>

config == <<minV, maxV, step, orientation, hasOnChange, hasName>>

\* --------------------------------------------------------- numeric helpers
\* mutant of clampNumber: the upper bound is not applied
clampNumber_noUpper(num, lo, hi) == RMax(num, lo)

clampNumber(num, lo, hi) == RMin(RMax(num, lo), hi)

percentToValue(percent, lo, hi) == RAdd(lo, RMul(percent, RSub(hi, lo)))

valueToPercent(value, lo, hi) == RDiv(RSub(value, lo), RSub(hi, lo))

\* mutant of calcStepValue: a step <= 0 falls back to the whole range
calcStepValue_fallbackMax(stepOpt, max) == Rat(IF stepOpt > 0 THEN stepOpt ELSE max, max)

calcStepValue(stepOpt, max) == Rat(IF stepOpt > 0 THEN stepOpt ELSE 1, max)

\* mutant of valueOf: the total is not floored to a multiple of the step
valueOf_noStep(rv) ==
  Floor(clampNumber(percentToValue(rv, RInt(minV), RInt(maxV)), RInt(minV), RInt(maxV)))

\* `get value()` for a progress rv
valueOf(rv) ==
  LET stepV == RMul(step, RInt(maxV))
      totalValue == percentToValue(rv, RInt(minV), RInt(maxV))
  IN  Floor(clampNumber(RMul(RInt(Floor(RDiv(totalValue, stepV))), stepV),
                        RInt(minV), RInt(maxV)))

value == valueOf(rangeValue)

\* mutant of updateRangeValue: the new progress is stored as it comes
updateRangeValue_noClamp(newValue) == newValue

updateRangeValue(newValue) ==
  LET minValue == Rat(minV, maxV)
  IN  clampNumber(newValue, minValue, RInt(1))

\* mutant of getGreaterStepValue: no 10% floor
getGreaterStepValue_noFloor == step

getGreaterStepValue ==
  LET maxAdditional == Rat(1, 10)
  IN  IF RLt(step, maxAdditional) THEN maxAdditional ELSE step

\* mutant of moveSlider: the nodes are written before the progress is updated
moveSlider_beforeUpdate(rv) ==
  LET filledValue == clampNumber(RInt(Floor(RMul(rv, RInt(100)))), RInt(0), RInt(100))
      stepP == RMul(step, RInt(100))
      stepedRange == RMul(RInt(Floor(RDiv(filledValue, stepP))), stepP)
      thisValue == valueOf(rangeValue)
  IN  [ percent |-> stepedRange,
        ariaValueNow |-> thisValue,
        hiddenInput |-> IF hasName THEN <<thisValue>> ELSE <<>> ]

\* the node state #moveSlider leaves for a progress rv
moveSlider(rv) ==
  LET filledValue == clampNumber(RInt(Floor(RMul(rv, RInt(100)))), RInt(0), RInt(100))
      stepP == RMul(step, RInt(100))
      stepedRange == RMul(RInt(Floor(RDiv(filledValue, stepP))), stepP)
      thisValue == valueOf(rv)
  IN  [ percent |-> stepedRange,
        ariaValueNow |-> thisValue,
        hiddenInput |-> IF hasName THEN <<thisValue>> ELSE <<>> ]

\* mutant of notifyValueChange: the callback gets the value before the update
notifyValueChange_stale(rv) == IF hasOnChange THEN <<valueOf(rangeValue)>> ELSE <<>>

notifyValueChange(rv) == IF hasOnChange THEN <<valueOf(rv)>> ELSE <<>>

\* ------------------------------------------------------------ construction
\* orientation, onChange and name options: every pair of choices occurs
UiOptions ==
  { u \in [ orientation : {"horizontal", "vertical"}, onChange : BOOLEAN, name : BOOLEAN ] :
      (u.orientation = "horizontal") = (u.onChange = u.name) }

\* the options of `new Slider({...})`; the code does not validate them, and
\* min >= max or max = 0 divide by zero, so those are left out
Options(mins, maxs, steps, defaults) ==
  { c \in [ min : mins, max : maxs, step : steps, defaultValue : defaults,
            ui : UiOptions ] :
      c.min < c.max /\ c.max > 0 }

\* lastEvent: the event's type, the class of the event object, its key, its
\* input (the pointer coordinate along the slider's axis; the defaultValue of
\* the construction; for a pointer-down, how many of the listeners it adds
\* were registered already) and whether a listener of the widget ran for it
Event(type, kind, key, arg, handled) ==
  [ type |-> type, kind |-> kind, key |-> key, arg |-> arg, handled |-> handled ]

\* the construction, as the first "event": its input is the defaultValue, and
\* it keeps the step option as given (the instance only stores #step)
ConstructEvent(c) ==
  [ type |-> "construct", kind |-> "none", key |-> "", arg |-> c.defaultValue,
    handled |-> TRUE, step |-> c.step ]

\* constructor: fields, #initDefaultValue, #createSlider, #initEventListeners
Construct(c) ==
  /\ minV = c.min
  /\ maxV = c.max
  /\ step = calcStepValue(c.step, c.max)
  /\ orientation = c.ui.orientation
  /\ hasOnChange = c.ui.onChange
  /\ hasName = c.ui.name
  /\ rangeValue = updateRangeValue(
                    valueToPercent(RInt(c.defaultValue), RInt(minV), RInt(maxV)))
  /\ dom = moveSlider(rangeValue)
  /\ docListeners = {}
  /\ lastEvent = ConstructEvent(c)
  /\ calls = <<>>

\* clampNumber has not been called from outside the slider
NoCall == [ x |-> RInt(0), lo |-> RInt(0), hi |-> RInt(0), out |-> <<>> ]

\* defaultValue ranges from below every min to above every max
Init ==
  \E c \in Options((0 - MaxMin) .. MaxMin, 1 .. MaxMax, (0 - 1) .. MaxStep,
                   (0 - MaxMin - 1) .. (MaxMax + 1)) :
    Construct(c) /\ probe = NoCall

\* the configurations of the spec's examples: min 0, max 100 or 200, step 20
InitExamples ==
  \E c \in Options({0}, {100, 200}, {20}, {0, 25}) : Construct(c) /\ probe = NoCall

\* a range that starts at half of max
InitHalfRange ==
  \E c \in Options({50}, {100}, {1, 10}, {0, 50}) : Construct(c) /\ probe = NoCall

\* a fine-grained slider (progress-step 1/20) and a coarse one (4/20)
InitFine ==
  \E c \in Options({0, 5}, {20}, {1, 4}, {0, 10}) : Construct(c) /\ probe = NoCall

\* ------------------------------------------------------------------ events
\* page positions <<x, y>> of a pointer event: anywhere along the slider's
\* axis, before and beyond the track; across the axis, on the track's corner
Points ==
  IF orientation = "horizontal"
  THEN { <<x, rect.top>> : x \in (0 - Overshoot) .. (rect.right + Overshoot) }
  ELSE { <<rect.left, y>> : y \in (0 - Overshoot) .. (rect.bottom + Overshoot) }

\* the events a pointer handler can be called with: mouse or touch events
\* (by type) at a point, or an event of another class, which has no position
PointerInputs(kind) ==
  { <<kind, p[1], p[2]>> : p \in Points } \cup { <<"other", 0, 0>> }

Keys == { "ArrowUp", "ArrowRight", "ArrowDown", "ArrowLeft",
          "Home", "End", "PageUp", "PageDown", "Enter" }

\* #getEventCoords: <<x, y>> for an event of the given kind at page (x, y)
getEventCoords(kind, x, y) ==
  IF kind \in {"mouse", "touch"} THEN <<x, y>> ELSE <<0, 0>>

\* mutant of interactionRangeValue: the vertical mapping is not inverted
interactionRangeValue_noFlip(kind, x, y) ==
  IF orientation = "horizontal"
  THEN Rat(getEventCoords(kind, x, y)[1] - rect.left, rect.width)
  ELSE Rat(getEventCoords(kind, x, y)[2] - rect.top, rect.height)

\* mutant of interactionRangeValue: a move goes half of the way from the
\* current progress to the pointer
interactionRangeValue_halfWay(kind, x, y) ==
  LET raw == IF orientation = "horizontal"
             THEN Rat(getEventCoords(kind, x, y)[1] - rect.left, rect.width)
             ELSE RNeg(Rat(getEventCoords(kind, x, y)[2] - rect.bottom, rect.height))
  IN  RDiv(RAdd(rangeValue, raw), RInt(2))

\* the raw progress #onInteractionEvent computes
interactionRangeValue(kind, x, y) ==
  IF orientation = "horizontal"
  THEN Rat(getEventCoords(kind, x, y)[1] - rect.left, rect.width)
  ELSE RNeg(Rat(getEventCoords(kind, x, y)[2] - rect.bottom, rect.height))

\* the pipeline every interaction ends with
Pipeline(newValue) ==
  /\ rangeValue' = updateRangeValue(newValue)
  /\ dom' = moveSlider(rangeValue')
  /\ calls' = notifyValueChange(rangeValue')

PointerEvent(type, kind, x, y, handled) ==
  Event(type, kind, "", IF orientation = "horizontal" THEN x ELSE y, handled)

onInteractionEvent(type, kind, x, y) ==
  /\ Pipeline(interactionRangeValue(kind, x, y))
  /\ lastEvent' = PointerEvent(type, kind, x, y, TRUE)

\* mutant of NotDelivered: the move handler runs although it is not registered
NotDelivered_runs(type, kind, x, y) == onInteractionEvent(type, kind, x, y)

\* an event for which no listener of the widget is registered: nothing of
\* the widget runs, and nothing reads the event
NotDelivered(type, kind, x, y) ==
  /\ lastEvent' = Event(type, kind, "", 0, FALSE)
  /\ calls' = <<>>
  /\ UNCHANGED <<rangeValue, dom>>

\* mutant of onClick: a click also drops the document listeners
onClick_endsDrag ==
  \E e \in PointerInputs("mouse") :
    /\ onInteractionEvent("click", e[1], e[2], e[3])
    /\ docListeners' = {}
    /\ UNCHANGED <<config, probe>>

onClick ==
  \E e \in PointerInputs("mouse") :
    /\ onInteractionEvent("click", e[1], e[2], e[3])
    /\ UNCHANGED <<config, probe, docListeners>>

onMouseDown ==
  /\ docListeners' = docListeners \cup {"mousemove", "mouseup"}
  /\ lastEvent' = Event("mousedown", "mouse", "",
                        Cardinality(docListeners \cap {"mousemove", "mouseup"}), TRUE)
  /\ calls' = <<>>
  /\ UNCHANGED <<config, probe, rangeValue, dom>>

onMouseMove ==
  \E e \in PointerInputs("mouse") :
    /\ IF "mousemove" \in docListeners
       THEN onInteractionEvent("mousemove", e[1], e[2], e[3])
       ELSE NotDelivered("mousemove", e[1], e[2], e[3])
    /\ UNCHANGED <<config, probe, docListeners>>

\* mutant of onMouseUp: only the mouseup listener is removed
onMouseUp_keepsMove ==
  /\ docListeners' = IF "mouseup" \in docListeners
                     THEN docListeners \ {"mouseup"}
                     ELSE docListeners
  /\ lastEvent' = Event("mouseup", "mouse", "", 0, "mouseup" \in docListeners)
  /\ calls' = <<>>
  /\ UNCHANGED <<config, probe, rangeValue, dom>>

onMouseUp ==
  /\ docListeners' = IF "mouseup" \in docListeners
                     THEN docListeners \ {"mousemove", "mouseup"}
                     ELSE docListeners
  /\ lastEvent' = Event("mouseup", "mouse", "", 0, "mouseup" \in docListeners)
  /\ calls' = <<>>
  /\ UNCHANGED <<config, probe, rangeValue, dom>>

onTouchStart ==
  /\ docListeners' = docListeners \cup {"touchmove", "touchend"}
  /\ lastEvent' = Event("touchstart", "touch", "",
                        Cardinality(docListeners \cap {"touchmove", "touchend"}), TRUE)
  /\ calls' = <<>>
  /\ UNCHANGED <<config, probe, rangeValue, dom>>

onTouchMove ==
  \E e \in PointerInputs("touch") :
    /\ IF "touchmove" \in docListeners
       THEN onInteractionEvent("touchmove", e[1], e[2], e[3])
       ELSE NotDelivered("touchmove", e[1], e[2], e[3])
    /\ UNCHANGED <<config, probe, docListeners>>

onTouchEnd ==
  /\ docListeners' = IF "touchend" \in docListeners
                     THEN docListeners \ {"touchmove", "touchend"}
                     ELSE docListeners
  /\ lastEvent' = Event("touchend", "touch", "", 0, "touchend" \in docListeners)
  /\ calls' = <<>>
  /\ UNCHANGED <<config, probe, rangeValue, dom>>

\* mutant of keyRangeValue: End stops one step short of 1
keyRangeValue_EndShort(key, rv) ==
  LET minValue == Rat(minV, maxV)
      greaterStep == getGreaterStepValue
  IN  CASE key \in {"ArrowUp", "ArrowRight"} -> RAdd(rv, step)
        [] key \in {"ArrowDown", "ArrowLeft"} -> RSub(rv, step)
        [] key = "Home" -> RMul(RDiv(minValue, step), step)
        [] key = "End" -> RSub(RInt(1), step)
        [] key = "PageUp" -> RAdd(rv, greaterStep)
        [] key = "PageDown" -> RSub(rv, greaterStep)
        [] OTHER -> rv

\* mutant of keyRangeValue: Home divides by the step and does not multiply back
keyRangeValue_HomeNoMul(key, rv) ==
  LET minValue == Rat(minV, maxV)
      greaterStep == getGreaterStepValue
  IN  CASE key \in {"ArrowUp", "ArrowRight"} -> RAdd(rv, step)
        [] key \in {"ArrowDown", "ArrowLeft"} -> RSub(rv, step)
        [] key = "Home" -> RDiv(minValue, step)
        [] key = "End" -> RInt(1)
        [] key = "PageUp" -> RAdd(rv, greaterStep)
        [] key = "PageDown" -> RSub(rv, greaterStep)
        [] OTHER -> rv

\* the progress the switch of #onKeyDown computes for a key
keyRangeValue(key, rv) ==
  LET minValue == Rat(minV, maxV)
      greaterStep == getGreaterStepValue
  IN  CASE key \in {"ArrowUp", "ArrowRight"} -> RAdd(rv, step)
        [] key \in {"ArrowDown", "ArrowLeft"} -> RSub(rv, step)
        [] key = "Home" -> RMul(RDiv(minValue, step), step)
        [] key = "End" -> RInt(1)
        [] key = "PageUp" -> RAdd(rv, greaterStep)
        [] key = "PageDown" -> RSub(rv, greaterStep)
        [] OTHER -> rv

\* mutant of onKeyDown: End also stores its new progress as the step
onKeyDown_EndSetsStep ==
  \E key \in Keys :
    /\ Pipeline(keyRangeValue(key, rangeValue))
    /\ lastEvent' = Event("keydown", "key", key, 0, TRUE)
    /\ step' = IF key = "End" THEN RInt(1) ELSE step
    /\ UNCHANGED <<minV, maxV, orientation, hasOnChange, hasName, probe, docListeners>>

onKeyDown ==
  \E key \in Keys :
    /\ Pipeline(keyRangeValue(key, rangeValue))
    /\ lastEvent' = Event("keydown", "key", key, 0, TRUE)
    /\ UNCHANGED <<config, probe, docListeners>>

Next ==
  \/ onClick
  \/ onMouseDown
  \/ onMouseMove
  \/ onMouseUp
  \/ onTouchStart
  \/ onTouchMove
  \/ onTouchEnd
  \/ onKeyDown

Spec == Init /\ [][Next]_vars

SpecExamples == InitExamples /\ [][Next]_vars

SpecHalfRange == InitHalfRange /\ [][Next]_vars

SpecFine == InitFine /\ [][Next]_vars

\* ------------------------------------------------- clampNumber on its own
\* the numbers n / d with |n| <= MaxNum and d in {1, 2}
Numbers == { Rat(n, d) : n \in (0 - MaxNum) .. MaxNum, d \in {1, 2} }

\* some slider, and three numbers to call clampNumber with
InitClamp ==
  /\ \E c \in Options({0}, {1}, {1}, {0}) : Construct(c)
  /\ \E x \in Numbers, lo \in Numbers, hi \in Numbers :
       probe = [ x |-> x, lo |-> lo, hi |-> hi, out |-> <<>> ]

\* clampNumber(x, lo, hi), and then clampNumber of its result
callClampNumber ==
  /\ Len(probe.out) < 2
  /\ LET arg == IF probe.out = <<>> THEN probe.x ELSE probe.out[Len(probe.out)]
     IN  probe' = [ probe EXCEPT !.out = Append(@, clampNumber(arg, probe.lo, probe.hi)) ]
  /\ UNCHANGED <<config, rangeValue, dom, docListeners, lastEvent, calls>>

SpecClamp == InitClamp /\ [][callClampNumber]_vars

\* ------------------------------------------------------------------ claims
\* a click, or a move on the document, that reached #onInteractionEvent
Interacted ==
  lastEvent.handled /\ lastEvent.type \in {"click", "mousemove", "touchmove"}

Pressed(key) == lastEvent.type = "keydown" /\ lastEvent.key = key

RecognizedKeys == { "ArrowUp", "ArrowRight", "ArrowDown", "ArrowLeft",
                    "Home", "End", "PageUp", "PageDown" }

C2_Step20Values ==
  (minV = 0 /\ maxV = 100 /\ step = Rat(20, 100)) => value \in {0, 20, 40, 60, 80, 100}

\* a drag move to a raw percent strictly between two stops
C2_Witness ==
  /\ minV = 0 /\ maxV = 100 /\ step = Rat(20, 100)
  /\ Interacted /\ lastEvent.type = "mousemove"
  /\ RLt(Rat(20, 100), rangeValue) /\ RLt(rangeValue, Rat(40, 100))
  /\ value = 20

\* C3 as stated: End sets progress to 1 and makes the derived value max.
C3_EndYieldsMax == Pressed("End") => (rangeValue = RInt(1) /\ value = maxV)

\* C3 as amended: End sets progress to 1, and the derived value is then
\* floor(max / step) * step (min if that is below min): the greatest multiple
\* of the step that is not above max, which is max exactly when the step
\* divides max.
C3_EndYieldsTopStep ==
  Pressed("End") =>
    LET s == Floor(RMul(step, RInt(maxV)))
        top == (maxV \div s) * s
    IN  /\ rangeValue = RInt(1)
        /\ value = (IF top < minV THEN minV ELSE top)
        /\ (value = maxV) = (maxV % s = 0)

\* End pressed on a slider whose step does not divide max
C3_Witness == Pressed("End") /\ value < maxV

\* C4: Home yields the minimum reachable stepped value: the value Home sets
\* does not depend on the state it is pressed in, it is the value after Home,
\* and no reachable state has a smaller one.
C4_HomeIsMinimum ==
  LET home == valueOf(updateRangeValue(keyRangeValue("Home", rangeValue)))
      homeFromEnd == valueOf(updateRangeValue(keyRangeValue("Home", RInt(1))))
  IN  /\ home = homeFromEnd
      /\ home <= value
      /\ Pressed("Home") => value = home

\* Home pressed on a slider whose range does not start at 0
C4_Witness == Pressed("Home") /\ minV > 0

\* C5 as stated: a click or drag move at pointerX = trackLeft on a horizontal
\* slider yields progress 0 and value min.
C5_LeftEdgeYieldsMin ==
  ( /\ Interacted /\ lastEvent.kind \in {"mouse", "touch"}
    /\ orientation = "horizontal" /\ lastEvent.arg = rect.left )
  => (rangeValue = RInt(0) /\ value = minV)

\* C6 as stated: once a pointer-up has been handled no document-level listener
\* of the widget remains, and a pointer move that follows changes neither the
\* progress nor invokes onChange.
C6_UpReleasesAll ==
  [][ (lastEvent.type \in {"mouseup", "touchend"} /\ lastEvent.handled)
      => /\ docListeners = {}
         /\ lastEvent'.type \in {"mousemove", "touchmove"}
              => (rangeValue' = rangeValue /\ calls' = <<>>) ]_vars

\* C7: the construction invokes onChange never; an event that changes the
\* derived value invokes a registered onChange exactly once, with the new
\* derived value; without a registered callback nothing is invoked.
C7_NotifyOnChange ==
  /\ (lastEvent.type = "construct" => calls = <<>>)
  /\ [][ /\ (valueOf(rangeValue') # valueOf(rangeValue) /\ hasOnChange)
              => calls' = <<valueOf(rangeValue')>>
         /\ ~hasOnChange => calls' = <<>> ]_vars

\* a key press that changed the value and was reported
C7_Witness == Pressed("End") /\ hasOnChange /\ calls = <<value>> /\ value > minV

\* C8 as stated: a keydown with an unrecognized key changes neither the
\* progress nor the rendered state and does not invoke onChange.
C8_OtherKeyIsNoOp ==
  [][ (lastEvent'.type = "keydown" /\ lastEvent'.key \notin RecognizedKeys)
      => (rangeValue' = rangeValue /\ dom' = dom /\ calls' = <<>>) ]_vars

\* C9 as stated: an event that is neither a mouse nor a touch event leaves
\* the state as it was: progress and rendering unchanged, onChange not invoked.
C9_UnsupportedEventIgnored ==
  [][ (lastEvent'.handled /\ lastEvent'.kind = "other")
      => (rangeValue' = rangeValue /\ dom' = dom /\ calls' = <<>>) ]_vars

\* C10: for min = 0, max = 200, step = 20, defaultValue = 25 the derived value
\* right after construction is 20.
C10_Default25Is20 ==
  ( /\ lastEvent.type = "construct" /\ lastEvent.arg = 25
    /\ minV = 0 /\ maxV = 200 /\ step = Rat(20, 200) )
  => value = 20

\* the slider of the example, just constructed
C10_Witness ==
  /\ lastEvent.type = "construct" /\ lastEvent.arg = 25
  /\ minV = 0 /\ maxV = 200 /\ step = Rat(20, 200)
  /\ rangeValue = Rat(1, 8)

\* C11 as stated: when defaultValue lies in [min, max] on a step boundary (a
\* multiple of the step), the derived value right after construction equals
\* defaultValue, also when min > 0.
C11_DefaultRoundTrip ==
  LET stepV == Floor(RMul(step, RInt(maxV)))
      d == lastEvent.arg
  IN  (lastEvent.type = "construct" /\ minV <= d /\ d <= maxV /\ d % stepV = 0)
      => value = d

\* C12: a defaultValue outside [min, max] is clamped: the construction
\* leaves a progress in [min/max, 1]; for defaultValue > max the progress is 1
\* and the derived value is the one End produces, for defaultValue < min the
\* derived value is the one Home produces.
C12_DefaultClamped ==
  lastEvent.type = "construct" =>
    LET d == lastEvent.arg
        afterEnd == valueOf(updateRangeValue(keyRangeValue("End", rangeValue)))
        afterHome == valueOf(updateRangeValue(keyRangeValue("Home", rangeValue)))
    IN  /\ RLe(Rat(minV, maxV), rangeValue) /\ RLe(rangeValue, RInt(1))
        /\ d > maxV => (rangeValue = RInt(1) /\ value = afterEnd)
        /\ d < minV => value = afterHome

\* a slider with a negative min, constructed with a defaultValue below it
C12_Witness == lastEvent.type = "construct" /\ lastEvent.arg < minV /\ minV < 0

\* a click or a move that carried a position and reached #onInteractionEvent
Pointed == Interacted /\ lastEvent.kind \in {"mouse", "touch"}

\* C13: on a vertical slider with min = 0 the progress after a click or drag
\* move at pointerY is -(pointerY - trackBottom) / trackHeight clamped to
\* [0, 1]: 0 at the bottom of the track and 1 at its top.
C13_VerticalMapping ==
  (Pointed /\ orientation = "vertical" /\ minV = 0) =>
    LET y == lastEvent.arg
        raw == Rat(rect.bottom - y, rect.height)
    IN  /\ rangeValue = RMin(RMax(raw, RInt(0)), RInt(1))
        /\ y = rect.bottom => rangeValue = RInt(0)
        /\ y = rect.top => rangeValue = RInt(1)

\* a touch move to the top of a vertical track
C13_Witness ==
  /\ Pointed /\ orientation = "vertical" /\ minV = 0
  /\ lastEvent.type = "touchmove" /\ lastEvent.arg = rect.top
  /\ rangeValue = RInt(1)

\* C14: after construction and after every handled click, drag move and
\* keydown, aria-valuenow and the hidden input (when there is a name) hold the
\* derived value of the updated progress, and the event's onChange call, if a
\* callback is registered, got that same value.
C14_ReflectedValue ==
  /\ dom.ariaValueNow = value
  /\ hasName => dom.hiddenInput = <<value>>
  /\ ((Interacted \/ lastEvent.type = "keydown") /\ hasOnChange) => calls = <<value>>

\* an arrow key raised the value of a named slider with a callback
C14_Witness ==
  /\ Pressed("ArrowUp") /\ hasName /\ hasOnChange
  /\ value > minV /\ dom.hiddenInput = <<value>> /\ calls = <<value>>

\* C15: with 0 <= min < max the progress is within [min/max, 1] in every
\* reachable state.
C15_ProgressInRange ==
  minV >= 0 => (RLe(Rat(minV, maxV), rangeValue) /\ RLe(rangeValue, RInt(1)))

\* a move left of the track on a slider with min > 0: the progress is min/max
C15_Witness ==
  /\ Pointed /\ orientation = "horizontal" /\ lastEvent.arg < rect.left
  /\ minV > 0 /\ rangeValue = Rat(minV, maxV)

\* C16: after every drag move the progress is the clamped mapping of that
\* move's coordinate alone, whatever the progress was before, and the move
\* invoked a registered onChange exactly once, with the value of that progress.
C16_MovesInOrder ==
  (Pointed /\ lastEvent.type \in {"mousemove", "touchmove"}) =>
    LET p == lastEvent.arg
        raw == IF orientation = "horizontal"
               THEN Rat(p - rect.left, rect.width)
               ELSE Rat(rect.bottom - p, rect.height)
        mapped == RMin(RMax(raw, Rat(minV, maxV)), RInt(1))
    IN  /\ rangeValue = mapped
        /\ hasOnChange => (Len(calls) = 1 /\ calls[1] = valueOf(mapped))
        /\ ~hasOnChange => calls = <<>>

\* a mouse move into the track with a callback registered
C16_Witness ==
  /\ Pointed /\ lastEvent.type = "mousemove" /\ hasOnChange
  /\ orientation = "horizontal"
  /\ lastEvent.arg > rect.left /\ lastEvent.arg < rect.right
  /\ Len(calls) = 1

\* C17: a slider constructed with step <= 0 has the progress-step 1/max of
\* a slider constructed with step = 1; its state after construction differs
\* from that slider's in nothing but the option as given, so every event
\* sequence leads both to the same progress and value.
C17_StepFallback ==
  (lastEvent.type = "construct" /\ lastEvent.step <= 0) =>
    /\ step = Rat(1, maxV)
    /\ step = calcStepValue(1, maxV)
    /\ rangeValue = updateRangeValue(
                      valueToPercent(RInt(lastEvent.arg), RInt(minV), RInt(maxV)))
    /\ dom = moveSlider(rangeValue)

\* a slider with max > 1 constructed with a negative step
C17_Witness ==
  lastEvent.type = "construct" /\ lastEvent.step < 0 /\ maxV > 1 /\ step = Rat(1, maxV)

\* C18: PageUp adds and PageDown subtracts the larger of the progress-step
\* and 1/10, and the result is clamped to [min/max, 1]; with a progress-step
\* below 1/10, PageUp from a progress <= 9/10 raises it by exactly 1/10.
C18_PageKeys ==
  [][ LET large == RMax(step, Rat(1, 10))
          lo == Rat(minV, maxV)
      IN  /\ (lastEvent'.type = "keydown" /\ lastEvent'.key = "PageUp")
               => /\ rangeValue' = RMin(RMax(RAdd(rangeValue, large), lo), RInt(1))
                  /\ (RLt(step, Rat(1, 10)) /\ RLe(rangeValue, Rat(9, 10)))
                       => rangeValue' = RAdd(rangeValue, Rat(1, 10))
          /\ (lastEvent'.type = "keydown" /\ lastEvent'.key = "PageDown")
               => rangeValue' = RMin(RMax(RSub(rangeValue, large), lo), RInt(1))
    ]_vars

\* PageUp took a fine-grained slider from 1/20 to 3/20
C18_Witness ==
  Pressed("PageUp") /\ RLt(step, Rat(1, 10)) /\ rangeValue = Rat(3, 20)

\* C19: no event handler changes min, max, step, orientation, the callback
\* or the name; of the slider's fields only the progress changes. (The value
\* getter is an expression of the state and assigns nothing.)
C19_ConfigImmutable ==
  [][ /\ minV' = minV /\ maxV' = maxV /\ step' = step /\ orientation' = orientation
      /\ hasOnChange' = hasOnChange /\ hasName' = hasName ]_vars

\* both drags are open and End has moved the progress of a slider with
\* max > 1 to 1, its step still being 1/max or 2/max
C19_Witness ==
  /\ Pressed("End") /\ rangeValue = RInt(1) /\ maxV > 1
  /\ docListeners = {"mousemove", "mouseup", "touchmove", "touchend"}
  /\ RLt(step, RInt(1))

\* C20: for lo <= hi, clampNumber(x, lo, hi) is within [lo, hi], is x when
\* lo <= x <= hi, and clamping its result again returns the same number.
C20_Clamp ==
  (RLe(probe.lo, probe.hi) /\ Len(probe.out) >= 1) =>
    /\ RLe(probe.lo, probe.out[1]) /\ RLe(probe.out[1], probe.hi)
    /\ (RLe(probe.lo, probe.x) /\ RLe(probe.x, probe.hi)) => probe.out[1] = probe.x
    /\ Len(probe.out) = 2 => probe.out[2] = probe.out[1]

\* a number above hi was clamped twice
C20_Witness ==
  /\ RLt(probe.lo, probe.hi) /\ RLt(probe.hi, probe.x)
  /\ probe.out = <<probe.hi, probe.hi>>

MouseListeners == {"mousemove", "mouseup"}

TouchListeners == {"touchmove", "touchend"}

\* C21: the document listeners of a pointer kind are registered exactly from
\* its pointer-down to its pointer-up: none after construction, mousedown and
\* touchstart register theirs, the matching up removes them, and a move of a
\* kind that is not being dragged changes neither the progress nor invokes
\* onChange.
C21_ListenersWhileDragging ==
  /\ (lastEvent.type = "construct" => docListeners = {})
  /\ [][ LET t == lastEvent'.type
         IN  /\ t = "mousedown" => MouseListeners \subseteq docListeners'
             /\ t = "touchstart" => TouchListeners \subseteq docListeners'
             /\ t = "mouseup" => docListeners' \cap MouseListeners = {}
             /\ t = "touchend" => docListeners' \cap TouchListeners = {}
             /\ ( \/ (t = "mousemove" /\ docListeners \cap MouseListeners = {})
                  \/ (t = "touchmove" /\ docListeners \cap TouchListeners = {}) )
                  => (rangeValue' = rangeValue /\ dom' = dom /\ calls' = <<>>)
       ]_vars

\* a mouse move while only a touch drag is open
C21_Witness ==
  /\ lastEvent.type = "mousemove" /\ ~lastEvent.handled
  /\ docListeners = TouchListeners /\ calls = <<>>

\* C22: only pointer-down and pointer-up change the registered document
\* listeners: click, move and keydown leave them as they are, listeners go
\* away on mouseup or touchend only, and a keydown sets the progress from the
\* key and the current progress alone, whatever listeners are registered.
C22_DragStateFrame ==
  [][ LET t == lastEvent'.type
      IN  /\ t \in {"click", "mousemove", "touchmove", "keydown"}
               => docListeners' = docListeners
          /\ ~(docListeners \subseteq docListeners') => t \in {"mouseup", "touchend"}
          /\ ~(docListeners' \subseteq docListeners) => t \in {"mousedown", "touchstart"}
          /\ t = "keydown"
               => rangeValue' = updateRangeValue(keyRangeValue(lastEvent'.key, rangeValue))
    ]_vars

\* PageDown pressed in the middle of a mouse drag
C22_Witness ==
  Pressed("PageDown") /\ docListeners = MouseListeners /\ rangeValue = Rat(minV, maxV)

\* C23: for every progress n/d in [min/max, 1] the value getter returns the
\* reference result: total = min + progress * (max - min), stepSize =
\* progressStep * max, floor(clamp(floor(total / stepSize) * stepSize, min, max)).
\* The reference is computed here on integers: total = tN/d, stepSize = sN/sD.
C23_ValueReference ==
  (RLe(Rat(minV, maxV), rangeValue) /\ RLe(rangeValue, RInt(1))) =>
    LET n == rangeValue[1]
        d == rangeValue[2]
        tN == minV * d + n * (maxV - minV)
        sN == step[1] * maxV
        sD == step[2]
        q == (tN * sD) \div (d * sN)
        result == IF q * sN < minV * sD THEN minV
                  ELSE IF q * sN > maxV * sD THEN maxV
                  ELSE (q * sN) \div sD
    IN  value = result

\* a pointer put a slider with min # 0 on a progress that is no whole number
C23_Witness ==
  Pointed /\ minV # 0 /\ rangeValue[2] > 1 /\ value > minV /\ value < maxV

\* C24: registrations do not accumulate. A pointer-down that finds its
\* listeners registered leaves the registrations as they were; every event
\* invokes onChange at most once; and one handled pointer-up leaves no
\* listener of its kind, however many pointer-downs came before it.
C24_NoAccumulation ==
  /\ Len(calls) <= 1
  /\ [][ LET t == lastEvent'.type
         IN  /\ (t = "mousedown" /\ MouseListeners \subseteq docListeners)
                  => docListeners' = docListeners
             /\ (t = "touchstart" /\ TouchListeners \subseteq docListeners)
                  => docListeners' = docListeners
             /\ (t = "mouseup" /\ lastEvent'.handled)
                  => docListeners' = docListeners \ MouseListeners
             /\ (t = "touchend" /\ lastEvent'.handled)
                  => docListeners' = docListeners \ TouchListeners
             /\ t \in {"mousemove", "touchmove"}
                  => (Len(calls') <= 1 /\ dom' = moveSlider(rangeValue'))
       ]_vars

\* a second mousedown without a mouseup in between
C24_Witness ==
  /\ lastEvent.type = "mousedown" /\ lastEvent.arg = 2
  /\ docListeners = MouseListeners

\* C25 as stated: after construction and after every event the percentage
\* #moveSlider writes to the range and the thumb is
\* 100 * (value - min) / (max - min) for the current derived value.
C25_PercentMatchesValue ==
  dom.percent = Rat(100 * (value - minV), maxV - minV)

\* C26 as stated: when the step divides max - min, ArrowUp/ArrowRight in a
\* state with value v < max yields min(v + step, max), and
\* ArrowDown/ArrowLeft in a state with value v > min yields max(v - step, min).
C26_ArrowMovesOneStep ==
  [][ LET stepV == Floor(RMul(step, RInt(maxV)))
          v == valueOf(rangeValue)
          after == valueOf(rangeValue')
          up == IF v + stepV > maxV THEN maxV ELSE v + stepV
          down == IF v - stepV < minV THEN minV ELSE v - stepV
      IN  (lastEvent'.type = "keydown" /\ (maxV - minV) % stepV = 0) =>
            /\ (lastEvent'.key \in {"ArrowUp", "ArrowRight"} /\ v < maxV) => after = up
            /\ (lastEvent'.key \in {"ArrowDown", "ArrowLeft"} /\ v > minV) => after = down
    ]_vars

\* C27: the derived value is monotone in the pointer position: after an
\* interaction at a coordinate, the value is not above the value an
\* interaction further right (horizontal) or further up (vertical, a smaller
\* pageY) would give, and not below the value of one further left or down.
C27_MonotoneInPointer ==
  Pointed =>
    \A p \in Points :
      LET here == lastEvent.arg
          there == IF orientation = "horizontal" THEN p[1] ELSE p[2]
          other == valueOf(updateRangeValue(interactionRangeValue(lastEvent.kind, p[1], p[2])))
      IN  IF orientation = "horizontal"
          THEN /\ here <= there => value <= other
               /\ there <= here => other <= value
          ELSE /\ here >= there => value <= other
               /\ there >= here => other <= value

\* a vertical slider after a touch move into the track that left the value
\* strictly between min and max
C27_Witness ==
  /\ Pointed /\ orientation = "vertical" /\ lastEvent.type = "touchmove"
  /\ lastEvent.arg > rect.top /\ lastEvent.arg < rect.bottom
  /\ minV < value /\ value < maxV

\* the progress after pressing a key n times, starting from progress rv (a
\* press that changes nothing is followed by presses that change nothing)
RECURSIVE Presses(_, _, _)
Presses(key, rv, n) ==
  IF n = 0
  THEN rv
  ELSE LET next == updateRangeValue(keyRangeValue(key, rv))
       IN  IF next = rv THEN rv ELSE Presses(key, next, n - 1)

Ceil(a) == 0 - Floor(RNeg(a))

\* C28 as stated: from every reachable state, ceil(1 / progressStep) presses
\* of ArrowDown lead to the progress and value Home produces, and one more
\* press changes nothing; the same for ArrowUp and End.
C28_ArrowsConvergeInOneOverStep ==
  LET n == Ceil(RDiv(RInt(1), step))
      home == updateRangeValue(keyRangeValue("Home", rangeValue))
      end == updateRangeValue(keyRangeValue("End", rangeValue))
  IN  /\ Presses("ArrowDown", rangeValue, n) = home
      /\ Presses("ArrowDown", rangeValue, n + 1) = home
      /\ Presses("ArrowUp", rangeValue, n) = end
      /\ Presses("ArrowUp", rangeValue, n + 1) = end

\* C28 as amended: the number of presses that suffices is
\* ceil((1 - min/max) / progressStep), the length of the progress range
\* [min/max, 1] in steps. Every ArrowDown (ArrowUp) keydown is one such press;
\* after that many the progress, and so the value, is the one Home (End)
\* produces, and it stays there.
C28_ArrowsConverge ==
  /\ LET n == Ceil(RDiv(RSub(RInt(1), Rat(minV, maxV)), step))
         home == updateRangeValue(keyRangeValue("Home", rangeValue))
         end == updateRangeValue(keyRangeValue("End", rangeValue))
     IN  /\ Presses("ArrowDown", rangeValue, n) = home
         /\ Presses("ArrowDown", rangeValue, n + 1) = home
         /\ valueOf(Presses("ArrowDown", rangeValue, n)) = valueOf(home)
         /\ Presses("ArrowUp", rangeValue, n) = end
         /\ Presses("ArrowUp", rangeValue, n + 1) = end
         /\ valueOf(Presses("ArrowUp", rangeValue, n)) = valueOf(end)
  /\ [][ (lastEvent'.type = "keydown" /\ lastEvent'.key \in {"ArrowDown", "ArrowUp"})
           => rangeValue' = Presses(lastEvent'.key, rangeValue, 1) ]_vars

\* ArrowDown has taken a slider with a negative min to its lowest progress
C28_Witness ==
  Pressed("ArrowDown") /\ minV < 0 /\ rangeValue = Rat(minV, maxV)

====
